---- MODULE Spec2Model ----
(***************************************************************************)
(* Model of the weather-forecast repository:                               *)
(*   - the pivot of get_weather_forecast (src/app/routes/weather.py),      *)
(*   - the edge predictor (src/Robustel EG5120 ML/predictor.py),           *)
(*   - the weather part of the assistant (src/app/routes/rag.py).          *)
(* Each component has its own specification (SpecPivot, SpecPredictor,     *)
(* SpecRag); SpecEndToEnd runs the predictor and hands its result on,      *)
(* SpecConcurrent runs the predictor twice at the same time, SpecAuth is   *)
(* the authentication of a forecast request (src/app/routes/auth.py),      *)
(* SpecAccounts is registration and login (same file);                     *)
(* the variables of the other components stay at their initial value.      *)
(***************************************************************************)
EXTENDS Integers, Sequences, FiniteSets, TLC

VARIABLES
    \* ---- get_weather_forecast
    pivot_pc,     \* position in the handler: "start", "loop", "done", "error"
    pivot_err,    \* type of the exception that ended the handler, or "none"
    tables,       \* what influx_query returned: a sequence of tables (record sequences)
    ti, ri,       \* the loops' position: table index, record index
    by_time,      \* the dict by_time, in insertion order: <<[key, obs], ...>>
    result,       \* the list the handler returns
    \* ---- predictor.py, one run of the script
    pc,           \* position in main(): the next statement, or "done" / "failed"
    fs,           \* <<the artifact files present in SCRIPT_DIR>> once looked at, <<>> before
    pp,           \* <<the content of preprocess.json>> once read, <<>> before
    features, mean, std, labels,   \* what load_preprocess returned, <<>> before
    interpreter,  \* <<[input_width, output_width]>> once created, <<>> before
    raw,          \* <<sys.argv[1]>> once read, <<>> before
    payload,      \* <<the dict json.loads returned>>, <<>> before
    x,            \* the feature vector, <<>> before it is built
    input_tensor, \* what set_tensor stored in the interpreter, <<>> before
    probs,        \* the output tensor after invoke, <<>> before
    stdout,       \* the lines printed on stdout
    stderr,       \* the lines printed on stderr
    exit_code,    \* the exit status, -1 while the script runs
    \* ---- rag.py, the weather part of one request, or one call of a function
    rag_pc,       \* "idle", the next step of process_rag_request, or "done"
    request,      \* <<the form fields language and device_data>>, <<>> before
    language,     \* the local variable language of process_rag_request
    weather,      \* <<weather_prediction, prediction_confidence>> of line 305, <<>> before
    verbal_call,  \* <<a call of _confidence_to_verbal on its own and its result>>
    context_call, \* <<the last call of _build_weather_context and its result>>
    \* ---- predictor.py, several runs at the same time, each an OS process
    files,        \* <<the content of preprocess.json and weather_model.tflite>>, <<>> before
    run_pc,       \* for each run, its position in main()
    run_arg,      \* for each run, <<its sys.argv[1]>>, <<>> before it is read
    run_x,        \* for each run, its vector x, <<>> before it is built
    contexts,     \* the interpreters in memory: for each, its input and output tensor
    run_out,      \* for each run, <<what it printed and its exit status>>, <<>> before
    \* ---- auth.py and the dependency of GET /forecast/
    users,        \* the Firestore collection "users": for each uid its document
    auth_pc,      \* "idle", the next step of the request, "rejected" or "done"
    token,        \* <<the bearer token of the request>>, <<>> before
    uid,          \* <<the uid of the decoded token>>, <<>> before
    admin,        \* <<the dict get_firebase_admin_user returned>>, <<>> before
    http_status,  \* the status of the response, 0 before there is one
    forecast,     \* TRUE once get_weather_forecast has returned its data
    \* ---- auth.py, POST /register and the two login endpoints
    accounts,     \* Firebase Authentication: for each uid <<[email, password]>>, <<>> if free
    reg,          \* for each caller of /register: position, request, created uid, status
    login         \* one call of _authenticate_firebase_user: position, locals, response

pivotVars == <<pivot_pc, pivot_err, tables, ti, ri, by_time, result>>

predVars == <<pc, fs, pp, features, mean, std, labels, interpreter, raw, payload, x,
              input_tensor, probs, stdout, stderr, exit_code>>

ragVars == <<rag_pc, request, language, weather, verbal_call, context_call>>

concVars == <<files, run_pc, run_arg, run_x, contexts, run_out>>

authVars == <<users, auth_pc, token, uid, admin, http_status, forecast>>

acctVars == <<accounts, reg, login>>

vars == <<pivotVars, predVars, ragVars, concVars, authVars, acctVars>>

\* what the actions of one component leave alone
notPivotVars == <<predVars, ragVars, concVars, authVars, acctVars>>
notPredVars == <<pivotVars, ragVars, concVars, authVars, acctVars>>
notRagVars == <<pivotVars, predVars, concVars, authVars, acctVars>>
notConcVars == <<pivotVars, predVars, ragVars, authVars, acctVars>>
notAuthVars == <<pivotVars, predVars, ragVars, concVars, acctVars>>
\* users is shared by the forecast dependency, /register and the login endpoints
notAcctVars == <<pivotVars, predVars, ragVars, concVars, auth_pc, token, uid, admin,
                 http_status, forecast>>

-----------------------------------------------------------------------------
(* Bounds and input domains *)

\* most records a query returns
MaxRecords == 3

\* Python values are tagged: a datetime, a number, None
Dt(n) == <<"dt", n>>
Num(v) == <<"num", v>>
None == <<"none", 0>>

\* datetimes a record can carry (seconds of an hour, UTC), or None when the
\* record has no usable _time
Times == {Dt(59), Dt(60), None}
Fields == {"a", "b", "time"}
Values == {Num(1), Num(3)}

Records == [time : Times, field : Fields, value : Values]

\* the ways a query answer f comes as tables: one table, or two tables cut after
\* the k-th record (the second one empty when k = Len(f)); no table when f is empty
AsTables(f, k) ==
    IF k = 0 THEN (IF Len(f) = 0 THEN <<>> ELSE <<f>>)
    ELSE <<SubSeq(f, 1, k), SubSeq(f, k + 1, Len(f))>>

-----------------------------------------------------------------------------
(* get_weather_forecast: helpers *)

\* datetime.isoformat() of a UTC datetime: the text "MM:SS" as <<minutes, seconds>>
isoformat(t) == <<t[2] \div 60, t[2] % 60>>

\* position of key k in the dict d, 0 when absent  (t not in by_time)
IndexOfKey(d, k) ==
    IF \E i \in 1..Len(d) : d[i].key = k
    THEN CHOOSE i \in 1..Len(d) : d[i].key = k
    ELSE 0

\* a merge that keeps the first value written under a field
SetItemKeepFirst(obs, field, value) ==
    IF field \in DOMAIN obs THEN obs
    ELSE [f \in DOMAIN obs \cup {field} |-> IF f = field THEN value ELSE obs[f]]

\* obs[field] = value on a Python dict
SetItem(obs, field, value) ==
    [f \in DOMAIN obs \cup {field} |-> IF f = field THEN value ELSE obs[f]]

\* a loop body without the test "if t not in by_time": every record opens a group
MergeRecordAlwaysNew(d, record) ==
    Append(d, [key |-> isoformat(record.time),
               obs |-> SetItem([f \in {"time"} |-> record.time],
                               record.field, record.value)])

\* lines 37-43: the body of the inner loop on one record with a datetime
MergeRecord(d, record) ==
    LET t == isoformat(record.time)
        i == IndexOfKey(d, t)
        seeded == IF i = 0
                  THEN Append(d, [key |-> t, obs |-> [f \in {"time"} |-> record.time]])
                  ELSE d
        j == IF i = 0 THEN Len(seeded) ELSE i
    IN  [seeded EXCEPT ![j].obs = SetItem(@, record.field, record.value)]

\* list(by_time.values())
DictValues(d) == [i \in 1..Len(d) |-> d[i].obs]

\* key=lambda x: x["time"]
SortKey(o) == o["time"]

\* a < b on two sort keys is defined between values of one type only
Comparable(a, b) == a[1] = b[1] /\ a[1] # "none"

\* list.sort raises TypeError as soon as it compares keys of different types;
\* a list of fewer than two elements is never compared
SortRaises(s) ==
    /\ Len(s) >= 2
    /\ \E i, j \in 1..Len(s) : ~Comparable(SortKey(s[i]), SortKey(s[j]))

\* stable insertion of o into the sorted list s: after every element <= o
InsertSorted(s, o) ==
    LET c == Cardinality({i \in 1..Len(s) : SortKey(s[i])[2] <= SortKey(o)[2]})
    IN  SubSeq(s, 1, c) \o <<o>> \o SubSeq(s, c + 1, Len(s))

\* a handler that returns the groups in insertion order, unsorted
ListSortOmitted(s) == s

RECURSIVE ListSort(_)
\* result.sort(key=...): stable, ascending
ListSort(s) ==
    IF Len(s) <= 1 THEN s
    ELSE InsertSorted(ListSort(SubSeq(s, 1, Len(s) - 1)), s[Len(s)])

-----------------------------------------------------------------------------
(* get_weather_forecast: actions *)

\* line 31: tables = influx_query(flux); line 33: by_time = {}
InfluxQuery ==
    /\ pivot_pc = "start"
    /\ \E n \in 0..MaxRecords : \E f \in [1..n -> Records] : \E k \in 0..n :
           tables' = AsTables(f, k)
    /\ by_time' = <<>>
    /\ ti' = 1
    /\ ri' = 1
    /\ pivot_pc' = "loop"
    /\ UNCHANGED <<pivot_err, result>>
    /\ UNCHANGED notPivotVars

\* line 35: for table in tables (the inner loop of the current table is over)
NextTable ==
    /\ pivot_pc = "loop"
    /\ ti <= Len(tables)
    /\ ri > Len(tables[ti])
    /\ ti' = ti + 1
    /\ ri' = 1
    /\ UNCHANGED <<pivot_pc, pivot_err, tables, by_time, result>>
    /\ UNCHANGED notPivotVars

\* lines 36-43: one iteration of for record in table.records
ForRecord ==
    /\ pivot_pc = "loop"
    /\ ti <= Len(tables)
    /\ ri <= Len(tables[ti])
    /\ LET record == tables[ti][ri]
       IN  IF record.time = None
           THEN \* None.isoformat(): AttributeError leaves the handler
                /\ pivot_pc' = "error"
                /\ pivot_err' = "AttributeError"
                /\ UNCHANGED <<by_time, ri>>
           ELSE /\ by_time' = MergeRecord(by_time, record)
                /\ ri' = ri + 1
                /\ UNCHANGED <<pivot_pc, pivot_err>>
    /\ UNCHANGED <<tables, ti, result>>
    /\ UNCHANGED notPivotVars

\* lines 45-47: result = list(by_time.values()); result.sort(...); return result
SortAndReturn ==
    /\ pivot_pc = "loop"
    /\ ti > Len(tables)
    /\ IF SortRaises(DictValues(by_time))
       THEN /\ pivot_pc' = "error"
            /\ pivot_err' = "TypeError"
            /\ result' = DictValues(by_time)
       ELSE /\ pivot_pc' = "done"
            /\ result' = ListSort(DictValues(by_time))
            /\ UNCHANGED pivot_err
    /\ UNCHANGED <<tables, ti, ri, by_time>>
    /\ UNCHANGED notPivotVars

PivotInit ==
    /\ pivot_pc = "start"
    /\ pivot_err = "none"
    /\ tables = <<>>
    /\ ti = 1
    /\ ri = 1
    /\ by_time = <<>>
    /\ result = <<>>

PivotNext == InfluxQuery \/ NextTable \/ ForRecord \/ SortAndReturn

-----------------------------------------------------------------------------
(* predictor.py: values and input domains *)

\* longest mean / std array of a preprocess.json, widest classifier input
MaxLen == 2
\* most classes of a classifier
MaxClasses == 3

\* JSON values of a payload: an integer, null, NaN, a non-numeric string
JInt(n) == <<"int", n, 1>>
Null == <<"null", 0, 1>>
NaN == <<"nan", 0, 1>>
Str == <<"str", 0, 1>>

Abs(n) == IF n < 0 THEN -n ELSE n

RECURSIVE Gcd(_, _)
Gcd(a, b) == IF b = 0 THEN a ELSE Gcd(b, a % b)

\* the float n/d (d > 0), kept in lowest terms; inf and nan are floats too
Float(n, d) == LET g == Gcd(Abs(n), d) IN <<"float", n \div g, d \div g>>
Inf(sign) == <<"inf", sign, 1>>

Sign(n) == IF n < 0 THEN -1 ELSE 1

\* a - b on floats
FloatSub(a, b) ==
    IF a[1] = "nan" \/ b[1] = "nan" THEN NaN
    ELSE Float(a[2] * b[3] - b[2] * a[3], a[3] * b[3])

\* a / b on floats, as numpy divides (no exception on a zero divisor)
FloatDiv(a, b) ==
    IF a[1] = "nan" \/ b[1] = "nan" THEN NaN
    ELSE IF b[2] = 0 THEN (IF a[2] = 0 THEN NaN ELSE Inf(Sign(a[2])))
    ELSE Float(Sign(b[2]) * a[2] * b[3], a[3] * Abs(b[2]))

\* a > b on floats; every comparison with nan is false
FloatGt(a, b) ==
    /\ a[1] = "float"
    /\ b[1] = "float"
    /\ a[2] * b[3] > b[2] * a[3]

\* float(v) raises on a non-numeric string (ValueError) and on None (TypeError)
PyFloatRaises(v) == v[1] \in {"str", "null"}

\* float(v) of a JSON number
PyFloat(v) == IF v[1] = "int" THEN Float(v[2], 1) ELSE v

PA_THRESHOLD == 2000

FeatureNames == {"temperature", "pressure"}
PayloadKeys == {"temperature", "pressure"}
PayloadValues == {JInt(14), JInt(2000), JInt(101325), Null, NaN, Str}
Means == {10, 20}
Stds == {2, 5}
LabelLists == {<<"sunny", "rainy">>, <<"rain", "clear", "cloudy">>}

EmptyDict == [k \in {} |-> Null]

\* the JSON objects a caller can pass
Objects == UNION {[K -> PayloadValues] : K \in SUBSET PayloadKeys}

\* one full observation of three features, its pressure in Pa
FullObservation ==
    [kind |-> "object",
     body |-> ("temperature" :> JInt(25)) @@ ("humidity" :> JInt(60))
              @@ ("pressure" :> JInt(102000))]

\* sys.argv[1]: text that is no JSON, the JSON text of a number, of an object
Arguments ==
    {[kind |-> "invalid", body |-> EmptyDict], [kind |-> "number", body |-> EmptyDict]}
    \cup {[kind |-> "object", body |-> o] : o \in Objects}
    \cup {FullObservation}

\* feature lists without repetition
FeatureLists ==
    {f \in UNION {[1..n -> FeatureNames] : n \in 1..MaxLen} :
        \A i, j \in 1..Len(f) : i # j => f[i] # f[j]}

ArraysOf(S) == UNION {[1..n -> S] : n \in 0..MaxLen}

\* one descriptor of three features, its pressure in kPa, and two labels
FullDescriptor ==
    [has_features |-> TRUE, features |-> <<"temperature", "humidity", "pressure">>,
     mean |-> <<20, 50, 101>>, std |-> <<5, 10, 1>>, labels |-> <<"sunny", "rainy">>]

\* the contents of preprocess.json: with a "features" key or without one
PreprocessFiles ==
    [has_features : {TRUE}, features : FeatureLists,
     mean : ArraysOf(Means), std : ArraysOf(Stds), labels : LabelLists]
    \cup
    [has_features : {FALSE}, features : {<<>>},
     mean : ArraysOf(Means), std : ArraysOf(Stds), labels : LabelLists]
    \cup {FullDescriptor}

\* weather_model.tflite: a file the runtime rejects, or a model of some shape
ModelFiles ==
    {[valid |-> FALSE, input_width |-> 0, output_width |-> 0]}
    \cup [valid : {TRUE}, input_width : 1..MaxLen, output_width : 2..MaxClasses]
    \cup {[valid |-> TRUE, input_width |-> Len(FullDescriptor.features),
           output_width |-> Len(FullDescriptor.labels)]}

RECURSIVE Sum(_)
Sum(q) == IF Len(q) = 0 THEN 0 ELSE Head(q) + Sum(Tail(q))

\* the output distributions of a classifier of n classes, in tenths
ProbTenths == {0, 2, 3, 4, 5, 7, 10}
Distributions(n) == {q \in [1..n -> ProbTenths] : Sum(q) = 10}

\* the entry of an output tensor that is nan instead of a number of tenths
NanProb == -1

\* every component of the vector v is a finite float
Finite(v) == \A i \in 1..Len(v) : v[i][1] = "float"

\* what invoke can leave in the output tensor of a classifier of n classes fed
\* with v: a distribution; when v holds a nan or an infinity the dense layers
\* and the softmax may also carry the nan through to every class
Outputs(n, v) ==
    IF Finite(v) THEN Distributions(n)
    ELSE Distributions(n) \cup {[i \in 1..n |-> NanProb]}

\* line 92: float(probs[idx])
ProbFloat(t) == IF t = NanProb THEN NaN ELSE Float(t, 10)

-----------------------------------------------------------------------------
(* predictor.py: functions *)

DefaultFeatures == <<"temperature", "humidity", "pressure">>

\* line 23: pp.get("features", [...])
PpFeatures(file) == IF file.has_features THEN file.features ELSE DefaultFeatures

\* lines 25-26: np.array(scaler[...], dtype=np.float32)
AsFloatArray(a) == [i \in 1..Len(a) |-> Float(a[i], 1)]

\* a length test that forgets the std array
PreprocessMismatchMeanOnly(f, m, sd) == Len(f) # Len(m)

\* line 29: the test that makes load_preprocess raise
PreprocessMismatch(f, m, sd) == Len(f) # Len(m) \/ Len(f) # Len(sd)

\* line 39: float(payload["pressure"]) raises
NormalizeRaises(pl) ==
    /\ "pressure" \in DOMAIN pl
    /\ pl["pressure"] # Null
    /\ PyFloatRaises(pl["pressure"])

\* a conversion that also rescales a pressure equal to the threshold
normalize_units_ge(pl) ==
    IF "pressure" \in DOMAIN pl /\ pl["pressure"] # Null
    THEN LET p == PyFloat(pl["pressure"])
         IN  IF ~FloatGt(Float(PA_THRESHOLD, 1), p) /\ p[1] = "float"
             THEN [pl EXCEPT !["pressure"] = FloatDiv(p, Float(1000, 1))]
             ELSE pl
    ELSE pl

\* lines 37-42
normalize_units(pl) ==
    IF "pressure" \in DOMAIN pl /\ pl["pressure"] # Null
    THEN LET p == PyFloat(pl["pressure"])
         IN  IF FloatGt(p, Float(PA_THRESHOLD, 1))
             THEN [pl EXCEPT !["pressure"] = FloatDiv(p, Float(1000, 1))]
             ELSE pl
    ELSE pl

\* a test that forgets the null values
MissingOnly(pl, f) == f \notin DOMAIN pl

\* line 48: the test that makes build_input_vector raise on feature f
MissingOrNull(pl, f) == f \notin DOMAIN pl \/ pl[f] = Null

\* the iteration of the loop of build_input_vector that raises, 0 when none does
BuildStop(pl, f) ==
    LET stops == {i \in 1..Len(f) : MissingOrNull(pl, f[i]) \/ PyFloatRaises(pl[f[i]])}
    IN  IF stops = {} THEN 0 ELSE CHOOSE i \in stops : \A j \in stops : i <= j

\* lines 45-51, when no iteration raises
build_input_vector(pl, f) == [i \in 1..Len(f) |-> PyFloat(pl[f[i]])]

\* a standardization that multiplies by std
StandardizeTimes(v, m, sd) ==
    [i \in 1..Len(v) |-> FloatDiv(FloatSub(v[i], m[i]), FloatDiv(Float(1, 1), sd[i]))]

\* line 84: x = (x - mean) / std
Standardize(v, m, sd) == [i \in 1..Len(v) |-> FloatDiv(FloatSub(v[i], m[i]), sd[i])]

RECURSIVE ArgMaxScan(_, _, _)
\* the scan of np.argmax: a later element replaces the best only if greater
ArgMaxScan(q, i, best) ==
    IF i > Len(q) THEN best
    ELSE ArgMaxScan(q, i + 1, IF q[i] > q[best] THEN i ELSE best)

\* a scan that lets a later equal element replace the best
ArgMaxLast(q) ==
    CHOOSE k \in 1..Len(q) :
        /\ \A j \in 1..Len(q) : q[j] <= q[k]
        /\ \A j \in (k + 1)..Len(q) : q[j] < q[k]

\* line 91: idx = int(np.argmax(probs)), counted from 1
ArgMax(q) == ArgMaxScan(q, 2, 1)

-----------------------------------------------------------------------------
(* predictor.py: main() and the handler of lines 102-108 *)

\* a handler that prints the error and lets the script end with status 0
RaiseExitZero(type, msg) ==
    /\ pc' = "failed"
    /\ stderr' = Append(stderr, [error |-> msg, type |-> type])
    /\ exit_code' = 0

\* an exception leaves main(): lines 105-108 print the error and exit with 1
Raise(type, msg) ==
    /\ pc' = "failed"
    /\ stderr' = Append(stderr, [error |-> msg, type |-> type])
    /\ exit_code' = 1

\* lines 12-13: the files main() looks for
Artifacts == {"preprocess.json", "weather_model.tflite"}

\* lines 66-67
CheckPreprocessExists ==
    /\ pc = "check_preprocess"
    /\ \E present \in SUBSET Artifacts :
           /\ fs' = <<present>>
           /\ IF "preprocess.json" \in present
              THEN pc' = "check_model" /\ UNCHANGED <<stderr, exit_code>>
              ELSE Raise("FileNotFoundError", <<"preprocess.json not found", "">>)
    /\ UNCHANGED <<pp, features, mean, std, labels, interpreter, raw, payload, x,
                   input_tensor, probs, stdout>>
    /\ UNCHANGED notPredVars

\* a start that does not look for the classifier file
CheckModelExistsSkipped ==
    /\ pc = "check_model"
    /\ pc' = "load_preprocess"
    /\ UNCHANGED <<fs, pp, features, mean, std, labels, interpreter, raw, payload, x,
                   input_tensor, probs, stdout, stderr, exit_code>>
    /\ UNCHANGED notPredVars

\* lines 69-70
CheckModelExists ==
    /\ pc = "check_model"
    /\ IF "weather_model.tflite" \in fs[1]
       THEN pc' = "load_preprocess" /\ UNCHANGED <<stderr, exit_code>>
       ELSE Raise("FileNotFoundError", <<"weather_model.tflite not found", "">>)
    /\ UNCHANGED <<fs, pp, features, mean, std, labels, interpreter, raw, payload, x,
                   input_tensor, probs, stdout>>
    /\ UNCHANGED notPredVars

\* line 72 and lines 19-34
LoadPreprocess ==
    /\ pc = "load_preprocess"
    /\ \E file \in PreprocessFiles :
           /\ pp' = <<file>>
           /\ IF PreprocessMismatch(PpFeatures(file), AsFloatArray(file.mean),
                                    AsFloatArray(file.std))
              THEN /\ Raise("ValueError", <<"Preprocess mismatch", "">>)
                   /\ UNCHANGED <<features, mean, std, labels>>
              ELSE /\ features' = PpFeatures(file)
                   /\ mean' = AsFloatArray(file.mean)
                   /\ std' = AsFloatArray(file.std)
                   /\ labels' = file.labels
                   /\ pc' = "interpreter"
                   /\ UNCHANGED <<stderr, exit_code>>
    /\ UNCHANGED <<interpreter, raw, payload, x, input_tensor, probs, stdout>>
    /\ UNCHANGED fs
    /\ UNCHANGED notPredVars

\* lines 74-77
CreateInterpreter ==
    /\ pc = "interpreter"
    /\ \E m \in ModelFiles :
           IF m.valid
           THEN /\ interpreter' = <<[input_width |-> m.input_width,
                                     output_width |-> m.output_width]>>
                /\ pc' = "read_payload"
                /\ UNCHANGED <<stderr, exit_code>>
           ELSE /\ Raise("ValueError", <<"Could not open", "weather_model.tflite">>)
                /\ UNCHANGED interpreter
    /\ UNCHANGED <<pp, features, mean, std, labels, raw, payload, x, input_tensor,
                   probs, stdout>>
    /\ UNCHANGED fs
    /\ UNCHANGED notPredVars

\* line 79 and lines 54-62
ReadPayloadJson ==
    /\ pc = "read_payload"
    /\ \/ /\ Raise("ValueError", <<"No JSON argument provided", "">>)
          /\ UNCHANGED raw
       \/ /\ \E a \in Arguments : raw' = <<a>>
          /\ pc' = "json_loads"
          /\ UNCHANGED <<stderr, exit_code>>
    /\ UNCHANGED <<pp, features, mean, std, labels, interpreter, payload, x,
                   input_tensor, probs, stdout>>
    /\ UNCHANGED fs
    /\ UNCHANGED notPredVars

\* line 80
JsonLoads ==
    /\ pc = "json_loads"
    /\ IF raw[1].kind = "invalid"
       THEN /\ Raise("JSONDecodeError", <<"Expecting value", "">>)
            /\ UNCHANGED payload
       ELSE /\ payload' = <<[kind |-> IF raw[1].kind = "object" THEN "dict" ELSE "int",
                             body |-> raw[1].body]>>
            /\ pc' = "normalize_units"
            /\ UNCHANGED <<stderr, exit_code>>
    /\ UNCHANGED <<pp, features, mean, std, labels, interpreter, raw, x, input_tensor,
                   probs, stdout>>
    /\ UNCHANGED fs
    /\ UNCHANGED notPredVars

\* line 81
NormalizeUnits ==
    /\ pc = "normalize_units"
    /\ IF payload[1].kind # "dict"
       THEN /\ Raise("TypeError", <<"argument of type 'int' is not iterable", "">>)
            /\ UNCHANGED payload
       ELSE IF NormalizeRaises(payload[1].body)
       THEN /\ Raise("ValueError", <<"could not convert string to float", "pressure">>)
            /\ UNCHANGED payload
       ELSE /\ payload' = <<[payload[1] EXCEPT !.body = normalize_units(@)]>>
            /\ pc' = "build_input_vector"
            /\ UNCHANGED <<stderr, exit_code>>
    /\ UNCHANGED <<pp, features, mean, std, labels, interpreter, raw, x, input_tensor,
                   probs, stdout>>
    /\ UNCHANGED fs
    /\ UNCHANGED notPredVars

\* line 83
BuildInputVector ==
    /\ pc = "build_input_vector"
    /\ LET pl == payload[1].body
           i == BuildStop(pl, features)
       IN  IF i = 0
           THEN /\ x' = build_input_vector(pl, features)
                /\ pc' = "standardize"
                /\ UNCHANGED <<stderr, exit_code>>
           ELSE /\ IF MissingOrNull(pl, features[i])
                   THEN Raise("ValueError", <<"Missing or null feature", features[i]>>)
                   ELSE Raise("ValueError",
                              <<"could not convert string to float", features[i]>>)
                /\ UNCHANGED x
    /\ UNCHANGED <<pp, features, mean, std, labels, interpreter, raw, payload,
                   input_tensor, probs, stdout>>
    /\ UNCHANGED fs
    /\ UNCHANGED notPredVars

\* lines 84-85
StandardizeVector ==
    /\ pc = "standardize"
    /\ x' = Standardize(x, mean, std)
    /\ pc' = "set_tensor"
    /\ UNCHANGED <<pp, features, mean, std, labels, interpreter, raw, payload,
                   input_tensor, probs, stdout, stderr, exit_code>>
    /\ UNCHANGED fs
    /\ UNCHANGED notPredVars

\* line 87
SetTensor ==
    /\ pc = "set_tensor"
    /\ IF Len(x) # interpreter[1].input_width
       THEN /\ Raise("ValueError", <<"Cannot set tensor", "Dimension mismatch">>)
            /\ UNCHANGED input_tensor
       ELSE /\ input_tensor' = x
            /\ pc' = "invoke"
            /\ UNCHANGED <<stderr, exit_code>>
    /\ UNCHANGED <<pp, features, mean, std, labels, interpreter, raw, payload, x,
                   probs, stdout>>
    /\ UNCHANGED fs
    /\ UNCHANGED notPredVars

\* lines 88-90
Invoke ==
    /\ pc = "invoke"
    /\ \E q \in Outputs(interpreter[1].output_width, input_tensor) : probs' = q
    /\ pc' = "argmax"
    /\ UNCHANGED <<pp, features, mean, std, labels, interpreter, raw, payload, x,
                   input_tensor, stdout, stderr, exit_code>>
    /\ UNCHANGED fs
    /\ UNCHANGED notPredVars

\* lines 91-99
ArgmaxAndPrint ==
    /\ pc = "argmax"
    /\ LET idx == ArgMax(probs)
           conf == ProbFloat(probs[idx])
       IN  IF idx > Len(labels)
           THEN /\ Raise("IndexError", <<"list index out of range", "">>)
                /\ UNCHANGED stdout
           ELSE /\ stdout' = Append(stdout, [prediction |-> labels[idx],
                                             confidence |-> conf])
                /\ exit_code' = 0
                /\ pc' = "done"
                /\ UNCHANGED stderr
    /\ UNCHANGED <<pp, features, mean, std, labels, interpreter, raw, payload, x,
                   input_tensor, probs>>
    /\ UNCHANGED fs
    /\ UNCHANGED notPredVars

PredInit ==
    /\ pc = "check_preprocess"
    /\ fs = <<>>
    /\ pp = <<>>
    /\ features = <<>>
    /\ mean = <<>>
    /\ std = <<>>
    /\ labels = <<>>
    /\ interpreter = <<>>
    /\ raw = <<>>
    /\ payload = <<>>
    /\ x = <<>>
    /\ input_tensor = <<>>
    /\ probs = <<>>
    /\ stdout = <<>>
    /\ stderr = <<>>
    /\ exit_code = -1

PredNext ==
    \/ CheckPreprocessExists
    \/ CheckModelExists
    \/ LoadPreprocess
    \/ CreateInterpreter
    \/ ReadPayloadJson
    \/ JsonLoads
    \/ NormalizeUnits
    \/ BuildInputVector
    \/ StandardizeVector
    \/ SetTensor
    \/ Invoke
    \/ ArgmaxAndPrint

-----------------------------------------------------------------------------
(* rag.py: input domains *)

\* most devices in the device_data of a request
MaxDevices == 2

\* language tags a caller can send: the two supported ones, two others
Locales == {"en", "it", "fr", ""}

\* confidences handed to the verbalizer: probabilities, percentages, nan
Confidences ==
    {Float(0, 1), Float(1, 2), Float(7, 10), Float(8999, 10000), Float(9, 10),
     Float(1, 1), Float(4999, 100), Float(50, 1), Float(60, 1), Float(70, 1),
     Float(75, 1), Float(80, 1), Float(8999, 100), Float(90, 1), Float(100, 1), NaN}

Predictions == {"rainy", "Unknown"}

\* the JSON values of a device's prediction_confidence
DeviceConfidences == {Float(7, 10), JInt(70), JInt(0), Null, Str}

WeatherKeys == {"weather_prediction", "prediction_confidence"}

\* an element of the device list: something that is no dict, or a dict with
\* some of the two weather keys (a value whose key is absent is left at a default)
Devices ==
    {[is_dict |-> FALSE, keys |-> {}, weather_prediction |-> "Unknown",
      prediction_confidence |-> Null]}
    \cup {d \in [is_dict : {TRUE}, keys : SUBSET WeatherKeys,
                 weather_prediction : Predictions,
                 prediction_confidence : DeviceConfidences] :
             /\ "weather_prediction" \notin d.keys => d.weather_prediction = "Unknown"
             /\ "prediction_confidence" \notin d.keys => d.prediction_confidence = Null}

\* the form field device_data: absent or empty, text that is no JSON, the JSON
\* of something that is no list, the JSON of a list of devices
DeviceData ==
    {[kind |-> k, devices |-> <<>>] : k \in {"none", "invalid", "object"}}
    \cup {[kind |-> "list", devices |-> l] :
             l \in UNION {[1..n -> Devices] : n \in 0..MaxDevices}}

-----------------------------------------------------------------------------
(* rag.py: functions *)

\* lines 66 and 106, read at line 270: SYSTEM_PROMPTS.get(language, SYSTEM_PROMPTS["en"])
WeatherHeader(lang) ==
    IF lang = "it" THEN "PREVISIONE METEO:" ELSE "WEATHER PREDICTION:"

\* a comparison that leaves the bound itself out
FloatGeStrict(a, b) == FloatGt(a, b)

\* a >= b on floats, b finite; every comparison with nan is false
FloatGe(a, b) ==
    IF a[1] = "inf" THEN a[2] > 0
    ELSE /\ a[1] = "float"
         /\ a[2] * b[3] >= b[2] * a[3]

\* lines 164-175: the bounds of the English chain and what each branch returns
ThresholdsEn == <<90, 80, 70, 60, 50>>
VerbalEn ==
    <<"almost certainly", "very likely", "likely", "probably", "possibly", "might be">>

\* an Italian chain whose third bound is 75
ThresholdsItShifted == <<90, 80, 75, 60, 50>>

\* lines 150-161: the bounds of the Italian chain and what each branch returns
ThresholdsIt == <<90, 80, 70, 60, 50>>
VerbalIt ==
    <<"quasi certamente", "molto probabilmente", "probabilmente",
      "abbastanza probabilmente", "forse", "potrebbe essere">>

\* the branch an if/elif chain with bounds thr takes for c: the first bound
\* that c reaches, the else branch when it reaches none
Branch(c, thr) ==
    LET reached == {i \in 1..Len(thr) : FloatGe(c, Float(thr[i], 1))}
    IN  IF reached = {} THEN Len(thr) + 1
        ELSE CHOOSE i \in reached : \A j \in reached : i <= j

\* lines 146-175
confidence_to_verbal(confidence, lang) ==
    IF lang = "it" THEN VerbalIt[Branch(confidence, ThresholdsIt)]
    ELSE VerbalEn[Branch(confidence, ThresholdsEn)]

\* a context builder that returns nothing for a language without prompts
build_weather_context_strict(prediction, confidence, lang) ==
    IF prediction = "Unknown" \/ confidence = Float(0, 1) \/ lang \notin {"en", "it"}
    THEN <<>>
    ELSE <<WeatherHeader(lang), "Conditions will", confidence_to_verbal(confidence, lang),
           "be:", prediction>>

\* lines 268-282: the text returned, as the sequence of its parts; <<>> is ""
build_weather_context(prediction, confidence, lang) ==
    IF prediction = "Unknown" \/ confidence = Float(0, 1) THEN <<>>
    ELSE IF lang = "it"
    THEN <<WeatherHeader(lang), "Le condizioni", confidence_to_verbal(confidence, lang),
           "saranno:", prediction>>
    ELSE <<WeatherHeader(lang), "Conditions will", confidence_to_verbal(confidence, lang),
           "be:", prediction>>

\* lines 117-144: <<prediction, confidence>>
get_weather_from_data(data) ==
    LET having == {i \in 1..Len(data.devices) :
                      /\ data.devices[i].is_dict
                      /\ data.devices[i].keys = WeatherKeys}
    IN  IF data.kind # "list" \/ having = {} THEN <<"Unknown", Float(0, 1)>>
        ELSE LET d == data.devices[CHOOSE i \in having : \A j \in having : i <= j]
             IN  IF PyFloatRaises(d.prediction_confidence)
                 THEN <<"Unknown", Float(0, 1)>>
                 ELSE <<d.weather_prediction, PyFloat(d.prediction_confidence)>>

-----------------------------------------------------------------------------
(* rag.py: process_rag_request up to line 310, and calls of the two functions *)

\* lines 285-294: the form fields arrive, an unknown language becomes "en"
ProcessRagRequest(lang, data) ==
    /\ rag_pc = "idle"
    /\ request' = <<[language |-> lang, device_data |-> data]>>
    /\ language' = IF lang \notin {"en", "it"} THEN "en" ELSE lang
    /\ rag_pc' = "get_weather"
    /\ UNCHANGED <<weather, verbal_call, context_call>>

\* a request of any caller
RagRequest ==
    /\ rag_pc = "idle"
    /\ \E lang \in Locales : \E data \in DeviceData : ProcessRagRequest(lang, data)
    /\ UNCHANGED notRagVars

\* line 305
GetWeatherFromData ==
    /\ rag_pc = "get_weather"
    /\ weather' = get_weather_from_data(request[1].device_data)
    /\ rag_pc' = "build_context"
    /\ UNCHANGED <<request, language, verbal_call, context_call>>
    /\ UNCHANGED notRagVars

\* line 310
BuildWeatherContext ==
    /\ rag_pc = "build_context"
    /\ context_call' = <<[prediction |-> weather[1], confidence |-> weather[2],
                          language |-> language,
                          result |-> build_weather_context(weather[1], weather[2],
                                                           language)]>>
    /\ rag_pc' = "done"
    /\ UNCHANGED <<request, language, weather, verbal_call>>
    /\ UNCHANGED notRagVars

\* _confidence_to_verbal called on its own with any confidence and language
CallConfidenceToVerbal ==
    /\ rag_pc = "idle"
    /\ \E c \in Confidences : \E lang \in Locales :
           verbal_call' = <<[confidence |-> c, language |-> lang,
                             result |-> confidence_to_verbal(c, lang)]>>
    /\ rag_pc' = "done"
    /\ UNCHANGED <<request, language, weather, context_call>>
    /\ UNCHANGED notRagVars

\* _build_weather_context called on its own with any arguments
CallBuildWeatherContext ==
    /\ rag_pc = "idle"
    /\ \E p \in Predictions : \E c \in Confidences : \E lang \in Locales :
           context_call' = <<[prediction |-> p, confidence |-> c, language |-> lang,
                              result |-> build_weather_context(p, c, lang)]>>
    /\ rag_pc' = "done"
    /\ UNCHANGED <<request, language, weather, verbal_call>>
    /\ UNCHANGED notRagVars

\* the result line of a finished run of the predictor becomes the weather
\* fields of the one device of a request's device_data
ForwardPrediction ==
    /\ pc = "done"
    /\ rag_pc = "idle"
    /\ \E lang \in Locales :
           ProcessRagRequest(lang,
               [kind |-> "list",
                devices |-> <<[is_dict |-> TRUE, keys |-> WeatherKeys,
                               weather_prediction |-> stdout[1].prediction,
                               prediction_confidence |-> stdout[1].confidence]>>])
    /\ UNCHANGED notRagVars

RagInit ==
    /\ rag_pc = "idle"
    /\ request = <<>>
    /\ language = "en"
    /\ weather = <<>>
    /\ verbal_call = <<>>
    /\ context_call = <<>>

RagNext ==
    \/ RagRequest
    \/ GetWeatherFromData
    \/ BuildWeatherContext
    \/ CallConfidenceToVerbal
    \/ CallBuildWeatherContext

-----------------------------------------------------------------------------
(* predictor.py: runs at the same time *)

\* the runs in flight
Runs == {"a", "b"}

\* the artifacts next to the script: the three-feature descriptor or a
\* one-feature one, a classifier as wide as either and of two or three classes
SharedDescriptors ==
    {FullDescriptor,
     [has_features |-> TRUE, features |-> <<"temperature">>, mean |-> <<20>>,
      std |-> <<5>>, labels |-> <<"rain", "clear", "cloudy">>]}
SharedModels ==
    {[valid |-> TRUE, input_width |-> 3, output_width |-> 2],
     [valid |-> TRUE, input_width |-> 1, output_width |-> 3]}

\* sys.argv of a run: no argument, or one of Arguments
RunArguments == Arguments \cup {[kind |-> "absent", body |-> EmptyDict]}

\* the classifier, a function of its input tensor alone: most of the mass on
\* the last class when the first input is positive, on the first class
\* otherwise; nan when the tensor was not set or holds a non-finite value
Classify(n, v) ==
    IF Len(v) = 0 \/ ~Finite(v) THEN [i \in 1..n |-> NanProb]
    ELSE IF v[1][2] > 0
    THEN [i \in 1..n |-> IF i = n THEN 7 ELSE IF i = n - 1 THEN 3 ELSE 0]
    ELSE [i \in 1..n |-> IF i = 1 THEN 7 ELSE IF i = 2 THEN 3 ELSE 0]

\* one interpreter in the script's module, used by whichever run is in main()
OneContext(r) == "a"

\* line 74: main() creates the Interpreter it uses, so each run has its own
OwnContext(r) == r

Printed(label, conf) ==
    [status |-> 0, prediction |-> label, confidence |-> conf, type |-> ""]
Failed(type) ==
    [status |-> 1, prediction |-> "", confidence |-> Null, type |-> type]

\* the artifacts are put next to the script before any run
Deploy ==
    /\ files = <<>>
    /\ \E d \in SharedDescriptors : \E m \in SharedModels :
           files' = <<[preprocess |-> d, model |-> m]>>
    /\ UNCHANGED <<run_pc, run_arg, run_x, contexts, run_out>>
    /\ UNCHANGED notConcVars

\* lines 66-77 of run r: both files are there and load; the interpreter is
\* created and its tensors allocated: no input yet, an output that is no
\* distribution
RunStart(r) ==
    /\ files # <<>>
    /\ run_pc[r] = "start"
    /\ contexts' = [contexts EXCEPT ![OwnContext(r)] =
                       [input |-> <<>>,
                        output |-> Classify(files[1].model.output_width, <<>>)]]
    /\ run_pc' = [run_pc EXCEPT ![r] = "read_payload"]
    /\ UNCHANGED <<files, run_arg, run_x, run_out>>
    /\ UNCHANGED notConcVars

\* lines 79-85 of run r
RunBuild(r) ==
    /\ run_pc[r] = "read_payload"
    /\ \E a \in RunArguments :
           LET f == PpFeatures(files[1].preprocess)
               fail(type) ==
                   /\ run_out' = [run_out EXCEPT ![r] = <<Failed(type)>>]
                   /\ run_pc' = [run_pc EXCEPT ![r] = "failed"]
                   /\ UNCHANGED run_x
           IN  /\ run_arg' = [run_arg EXCEPT ![r] = <<a>>]
               /\ IF a.kind = "absent" THEN fail("ValueError")
                  ELSE IF a.kind = "invalid" THEN fail("JSONDecodeError")
                  ELSE IF a.kind = "number" THEN fail("TypeError")
                  ELSE IF NormalizeRaises(a.body) THEN fail("ValueError")
                  ELSE IF BuildStop(normalize_units(a.body), f) # 0
                  THEN fail("ValueError")
                  ELSE /\ run_x' = [run_x EXCEPT ![r] =
                              Standardize(build_input_vector(normalize_units(a.body), f),
                                          AsFloatArray(files[1].preprocess.mean),
                                          AsFloatArray(files[1].preprocess.std))]
                       /\ run_pc' = [run_pc EXCEPT ![r] = "set_tensor"]
                       /\ UNCHANGED run_out
    /\ UNCHANGED <<files, contexts>>
    /\ UNCHANGED notConcVars

\* line 87 of run r
RunSetTensor(r) ==
    /\ run_pc[r] = "set_tensor"
    /\ IF Len(run_x[r]) # files[1].model.input_width
       THEN /\ run_out' = [run_out EXCEPT ![r] = <<Failed("ValueError")>>]
            /\ run_pc' = [run_pc EXCEPT ![r] = "failed"]
            /\ UNCHANGED contexts
       ELSE /\ contexts' = [contexts EXCEPT ![OwnContext(r)].input = run_x[r]]
            /\ run_pc' = [run_pc EXCEPT ![r] = "invoke"]
            /\ UNCHANGED run_out
    /\ UNCHANGED <<files, run_arg, run_x>>
    /\ UNCHANGED notConcVars

\* line 88 of run r
RunInvoke(r) ==
    /\ run_pc[r] = "invoke"
    /\ contexts' = [contexts EXCEPT ![OwnContext(r)].output =
                       Classify(files[1].model.output_width,
                                contexts[OwnContext(r)].input)]
    /\ run_pc' = [run_pc EXCEPT ![r] = "argmax"]
    /\ UNCHANGED <<files, run_arg, run_x, run_out>>
    /\ UNCHANGED notConcVars

\* lines 90-99 of run r
RunPrint(r) ==
    /\ run_pc[r] = "argmax"
    /\ LET q == contexts[OwnContext(r)].output
           idx == ArgMax(q)
           l == files[1].preprocess.labels
       IN  IF idx > Len(l)
           THEN /\ run_out' = [run_out EXCEPT ![r] = <<Failed("IndexError")>>]
                /\ run_pc' = [run_pc EXCEPT ![r] = "failed"]
           ELSE /\ run_out' = [run_out EXCEPT ![r] = <<Printed(l[idx], ProbFloat(q[idx]))>>]
                /\ run_pc' = [run_pc EXCEPT ![r] = "done"]
    /\ UNCHANGED <<files, run_arg, run_x, contexts>>
    /\ UNCHANGED notConcVars

ConcInit ==
    /\ files = <<>>
    /\ run_pc = [r \in Runs |-> "start"]
    /\ run_arg = [r \in Runs |-> <<>>]
    /\ run_x = [r \in Runs |-> <<>>]
    /\ contexts = [r \in Runs |-> [input |-> <<>>, output |-> <<>>]]
    /\ run_out = [r \in Runs |-> <<>>]

ConcNext ==
    \/ Deploy
    \/ \E r \in Runs : RunStart(r)
    \/ \E r \in Runs : RunBuild(r)
    \/ \E r \in Runs : RunSetTensor(r)
    \/ \E r \in Runs : RunInvoke(r)
    \/ \E r \in Runs : RunPrint(r)

-----------------------------------------------------------------------------
(* auth.py: the dependency get_firebase_admin_user of GET /forecast/ *)

Uids == {"u1", "u2"}

\* the role field of a user document; "" when the document has none
Roles == {"admin", "visitor", "guest", ""}

\* what users/<uid> holds: no document, or a document with some role
UserDocs ==
    {[exists |-> FALSE, role |-> ""]} \cup {[exists |-> TRUE, role |-> r] : r \in Roles}

\* bearer tokens: one verify_id_token rejects, or the ID token of a uid
Tokens ==
    {[valid |-> FALSE, uid |-> ""]} \cup {[valid |-> TRUE, uid |-> u] : u \in Uids}

\* line 74: the roles _get_admin_user lets through
AcceptedRoles == {"admin", "visitor"}

\* an HTTPException leaves the dependency: the handler is not called
Reject(status) ==
    /\ http_status' = status
    /\ auth_pc' = "rejected"

\* the Firestore collection is written outside the request (console, registration)
SetUserDocument ==
    /\ auth_pc = "idle"
    /\ \E u \in Uids : \E d \in UserDocs : users' = [users EXCEPT ![u] = d]
    /\ UNCHANGED <<auth_pc, token, uid, admin, http_status, forecast>>
    /\ UNCHANGED notAuthVars

\* weather.py lines 11-16: a request to GET /forecast/ with a bearer token
ForecastRequest ==
    /\ auth_pc = "idle"
    /\ \E t \in Tokens : token' = <<t>>
    /\ auth_pc' = "verify_id_token"
    /\ UNCHANGED <<users, uid, admin, http_status, forecast>>
    /\ UNCHANGED notAuthVars

\* lines 94-98 and 104-109: verify_id_token raises on a token that is not valid
VerifyIdToken ==
    /\ auth_pc = "verify_id_token"
    /\ IF token[1].valid
       THEN /\ uid' = <<token[1].uid>>
            /\ auth_pc' = "get_admin_user"
            /\ UNCHANGED http_status
       ELSE /\ Reject(401)
            /\ UNCHANGED uid
    /\ UNCHANGED <<users, token, admin, forecast>>
    /\ UNCHANGED notAuthVars

\* line 100 and lines 60-84; an exception of the Firestore read is turned into
\* a 401 by lines 104-109
GetAdminUser ==
    /\ auth_pc = "get_admin_user"
    /\ \E raises \in BOOLEAN :
           LET user_doc == users[uid[1]]
           IN  IF raises \/ ~user_doc.exists
               THEN Reject(401) /\ UNCHANGED admin
               ELSE IF user_doc.role \notin AcceptedRoles
               THEN Reject(403) /\ UNCHANGED admin
               ELSE /\ admin' = <<[uid |-> uid[1], role |-> user_doc.role]>>
                    /\ auth_pc' = "get_weather_forecast"
                    /\ UNCHANGED http_status
    /\ UNCHANGED <<users, token, uid, forecast>>
    /\ UNCHANGED notAuthVars

\* weather.py lines 17-47: the handler runs and returns the forecast
GetWeatherForecast ==
    /\ auth_pc = "get_weather_forecast"
    /\ forecast' = TRUE
    /\ http_status' = 200
    /\ auth_pc' = "done"
    /\ UNCHANGED <<users, token, uid, admin>>
    /\ UNCHANGED notAuthVars

AuthInit ==
    /\ users = [u \in Uids |-> [exists |-> FALSE, role |-> ""]]
    /\ auth_pc = "idle"
    /\ token = <<>>
    /\ uid = <<>>
    /\ admin = <<>>
    /\ http_status = 0
    /\ forecast = FALSE

AuthNext ==
    \/ SetUserDocument
    \/ ForecastRequest
    \/ VerifyIdToken
    \/ GetAdminUser
    \/ GetWeatherForecast

-----------------------------------------------------------------------------
(* auth.py: POST /register, and _authenticate_firebase_user behind POST
   /login/firebase and POST /token. Firebase Authentication is the store
   accounts; the calls of the Admin SDK and of the REST API are atomic, the
   handlers' steps between them interleave with other requests. *)

Emails == {"a@x.io", "b@x.io"}

\* models.py lines 23-24: passwords of at least 6 characters; a shorter one is
\* refused by the request model before the handler runs
Passwords == {"secret1", "secret2"}

\* concurrent requests to /register
Callers == {"c1", "c2"}

\* firebase_auth.get_user_by_email: the uids of the accounts that have the
\* email; none makes the call raise UserNotFoundError
get_user_by_email(email) ==
    {u \in Uids : accounts[u] # <<>> /\ accounts[u][1].email = email}

\* the end of a call of /register with an HTTP status
RegisterEnds(c, status) ==
    reg' = [reg EXCEPT ![c].pc = "done", ![c].status = status]

\* line 236: a request with an email and a password
RegisterRequest(c) ==
    /\ reg[c].pc = "idle"
    /\ \E e \in Emails : \E p \in Passwords :
           reg' = [reg EXCEPT ![c].pc = "get_user_by_email", ![c].email = e,
                              ![c].password = p]
    /\ UNCHANGED <<accounts, login, users>>
    /\ UNCHANGED notAcctVars

\* lines 252-260: an account with the email ends the call with 400
RegisterGetUserByEmail(c) ==
    /\ reg[c].pc = "get_user_by_email"
    /\ IF get_user_by_email(reg[c].email) # {}
       THEN RegisterEnds(c, 400)
       ELSE reg' = [reg EXCEPT ![c].pc = "create_user"]
    /\ UNCHANGED <<accounts, login, users>>
    /\ UNCHANGED notAcctVars

\* create_user without the uniqueness check of Firebase Authentication
CreateUserUnchecked(c) ==
    /\ reg[c].pc = "create_user"
    /\ \E u \in Uids :
           /\ accounts[u] = <<>>
           /\ accounts' = [accounts EXCEPT
                  ![u] = <<[email |-> reg[c].email, password |-> reg[c].password]>>]
           /\ reg' = [reg EXCEPT ![c].pc = "set", ![c].uid = u]
    /\ UNCHANGED <<login, users>>
    /\ UNCHANGED notAcctVars

\* lines 262-266 and 288-292: firebase_auth.create_user makes an account with a
\* fresh uid, or raises EmailAlreadyExistsError, which ends the call with 400
CreateUser(c) ==
    /\ reg[c].pc = "create_user"
    /\ IF get_user_by_email(reg[c].email) # {}
       THEN RegisterEnds(c, 400) /\ UNCHANGED accounts
       ELSE \E u \in Uids :
                /\ accounts[u] = <<>>
                /\ accounts' = [accounts EXCEPT
                       ![u] = <<[email |-> reg[c].email, password |-> reg[c].password]>>]
                /\ reg' = [reg EXCEPT ![c].pc = "set", ![c].uid = u]
    /\ UNCHANGED <<login, users>>
    /\ UNCHANGED notAcctVars

\* lines 268-284: the user document is written with the role "visitor" and the
\* call returns 201
RegisterSetDocument(c) ==
    /\ reg[c].pc = "set"
    /\ users' = [users EXCEPT ![reg[c].uid] = [exists |-> TRUE, role |-> "visitor"]]
    /\ RegisterEnds(c, 201)
    /\ UNCHANGED <<accounts, login>>
    /\ UNCHANGED notAcctVars

\* the end of a login with an HTTPException: nothing is returned
LoginRaises(status) ==
    login' = [login EXCEPT !.pc = "rejected", !.status = status]

\* lines 207-221 and 300-314: both endpoints pass an email and a password on
LoginRequest ==
    /\ login.pc = "idle"
    /\ \E e \in Emails : \E p \in Passwords :
           login' = [login EXCEPT !.pc = "get_user_by_email", !.email = e,
                                  !.password = p]
    /\ UNCHANGED <<accounts, reg, users>>
    /\ UNCHANGED notAcctVars

\* lines 143-144 and 195-199: an email without account ends the login with 401
LoginGetUserByEmail ==
    /\ login.pc = "get_user_by_email"
    /\ IF get_user_by_email(login.email) = {}
       THEN LoginRaises(401)
       ELSE \E u \in get_user_by_email(login.email) :
                login' = [login EXCEPT !.pc = "sign_in", !.user = <<u>>]
    /\ UNCHANGED <<accounts, reg, users>>
    /\ UNCHANGED notAcctVars

\* lines 149-166: signInWithPassword answers 200 with the ID token of the
\* account of that email and password, anything else ends the login with 401
SignInWithPassword ==
    /\ login.pc = "sign_in"
    /\ LET signed == {u \in get_user_by_email(login.email) :
                          accounts[u][1].password = login.password}
       IN  IF signed = {}
           THEN LoginRaises(401)
           ELSE \E u \in signed :
                    login' = [login EXCEPT !.pc = "get_document",
                                  !.access_token = <<[valid |-> TRUE, uid |-> u]>>]
    /\ UNCHANGED <<accounts, reg, users>>
    /\ UNCHANGED notAcctVars

\* a role check as lax as the one of _get_admin_user
RoleRefusedLax(role) == role \notin AcceptedRoles

\* lines 178-185: user_data.get("role", "visitor") != "admin"
RoleRefused(role) == role # "admin"

\* lines 169-192 and 200-204: the user document is read; a missing document
\* and a role other than admin end the login with 403, an exception of the
\* read with 401, otherwise the ID token is returned
LoginGetDocument ==
    /\ login.pc = "get_document"
    /\ \E raises \in BOOLEAN :
           LET user_doc == users[login.user[1]]
               user_role == IF user_doc.role = "" THEN "visitor" ELSE user_doc.role
           IN  IF raises THEN LoginRaises(401)
               ELSE IF ~user_doc.exists THEN LoginRaises(403)
               ELSE IF RoleRefused(user_role) THEN LoginRaises(403)
               ELSE login' = [login EXCEPT !.pc = "done", !.status = 200,
                                  !.response = <<[access_token |-> login.access_token[1],
                                                  user_role |-> user_role]>>]
    /\ UNCHANGED <<accounts, reg, users>>
    /\ UNCHANGED notAcctVars

AcctInit ==
    /\ accounts = [u \in Uids |-> <<>>]
    /\ reg = [c \in Callers |->
                 [pc |-> "idle", email |-> "", password |-> "", uid |-> "", status |-> 0]]
    /\ login = [pc |-> "idle", email |-> "", password |-> "", user |-> <<>>,
                access_token |-> <<>>, status |-> 0, response |-> <<>>]

AcctNext ==
    \/ \E c \in Callers : RegisterRequest(c)
    \/ \E c \in Callers : RegisterGetUserByEmail(c)
    \/ \E c \in Callers : CreateUser(c)
    \/ \E c \in Callers : RegisterSetDocument(c)
    \/ SetUserDocument
    \/ LoginRequest
    \/ LoginGetUserByEmail
    \/ SignInWithPassword
    \/ LoginGetDocument

\* a run of the predictor whose result is then put into words
EndToEndNext ==
    \/ PredNext
    \/ ForwardPrediction
    \/ GetWeatherFromData
    \/ BuildWeatherContext

-----------------------------------------------------------------------------
(* Specifications *)

Init == PivotInit /\ PredInit /\ RagInit /\ ConcInit /\ AuthInit /\ AcctInit

\* one request to GET /forecast/
SpecPivot == Init /\ [][PivotNext]_vars

\* one run of predictor.py
SpecPredictor == Init /\ [][PredNext]_vars

\* the weather part of one request to POST /chat, or one call of
\* _confidence_to_verbal or _build_weather_context
SpecRag == Init /\ [][RagNext]_vars

\* predictor.py, then process_rag_request on what it printed
SpecEndToEnd == Init /\ [][EndToEndNext]_vars

\* two runs of predictor.py on the same artifacts, their steps interleaved
SpecConcurrent == Init /\ [][ConcNext]_vars

\* one request to GET /forecast/ through its dependency, on any users collection
SpecAuth == Init /\ [][AuthNext]_vars

\* concurrent calls of /register, a login, and changes of user documents
SpecAccounts == Init /\ [][AcctNext]_vars

-----------------------------------------------------------------------------
(* get_weather_forecast: properties *)

RECURSIVE Flatten(_)
\* the records of the query answer in source order
Flatten(tl) == IF Len(tl) = 0 THEN <<>> ELSE Head(tl) \o Flatten(Tail(tl))

AllRecords == Flatten(tables)

\* the index of the last record in source order with the time and field of record n
LastWrite(recs, n) ==
    CHOOSE m \in n..Len(recs) :
        /\ recs[m].time = recs[n].time
        /\ recs[m].field = recs[n].field
        /\ \A k \in (m + 1)..Len(recs) :
               ~(recs[k].time = recs[n].time /\ recs[k].field = recs[n].field)

\* the returned list holds the groups of by_time, each once
ResultIsGroups ==
    /\ Len(result) = Len(by_time)
    /\ \E p \in [1..Len(by_time) -> 1..Len(result)] :
           /\ \A i, j \in 1..Len(by_time) : i # j => p[i] # p[j]
           /\ \A i \in 1..Len(by_time) : result[p[i]] = by_time[i].obs

C2_LastWriteWins ==
    pivot_pc = "done" =>
        /\ ResultIsGroups
        /\ \A n \in 1..Len(AllRecords) :
               LET r == AllRecords[n]
                   g == IndexOfKey(by_time, isoformat(r.time))
               IN  /\ g # 0
                   /\ r.field \in DOMAIN by_time[g].obs
                   /\ by_time[g].obs[r.field] =
                          AllRecords[LastWrite(AllRecords, n)].value

\* C2 witness: (t=59, a) is written twice, first with 1 and later with 3, and the
\* returned observation of t=59 holds 3 under a
C2_Witness ==
    /\ pivot_pc = "done"
    /\ \E m, n \in 1..Len(AllRecords) :
           /\ m < n
           /\ AllRecords[m].time = Dt(59) /\ AllRecords[n].time = Dt(59)
           /\ AllRecords[m].field = "a" /\ AllRecords[n].field = "a"
           /\ AllRecords[m].value = Num(1) /\ AllRecords[n].value = Num(3)
    /\ \E i \in 1..Len(result) :
           /\ result[i]["time"] = Dt(59)
           /\ "a" \in DOMAIN result[i]
           /\ result[i]["a"] = Num(3)

\* C3: grouping is exact: the returned list has one observation per distinct
\* timestamp of the input, and the keys of the observation of a timestamp are
\* "time" and exactly the field names of the records carrying that timestamp.
C3_GroupingExact ==
    pivot_pc = "done" =>
        LET stamps == {AllRecords[n].time : n \in 1..Len(AllRecords)}
        IN  /\ Len(result) = Cardinality(stamps)
            /\ ResultIsGroups
            /\ \A t \in stamps :
                   LET here == {i \in 1..Len(by_time) : by_time[i].key = isoformat(t)}
                   IN  /\ Cardinality(here) = 1
                       /\ \A i \in here :
                              DOMAIN by_time[i].obs =
                                  {"time"} \cup
                                  {AllRecords[n].field :
                                      n \in {m \in 1..Len(AllRecords) :
                                                AllRecords[m].time = t}}

\* C3 witness: three records over two timestamps come back as two observations,
\* one with the fields a and b, the other with the field a only
C3_Witness ==
    /\ pivot_pc = "done"
    /\ Len(AllRecords) = 3
    /\ Len(result) = 2
    /\ DOMAIN result[1] = {"time", "a", "b"}
    /\ DOMAIN result[2] = {"time", "a"}

\* the pivot as a function of the records, for batches of well-formed records
RECURSIVE MergeAll(_, _)
MergeAll(d, recs) ==
    IF Len(recs) = 0 THEN d ELSE MergeAll(MergeRecord(d, Head(recs)), Tail(recs))

WellFormed(r) == r.time # None

\* C4: a record with a malformed timestamp is dropped and does not abort the
\* pivot: the pivot returns, and returns the pivot of the well-formed records.
\* (Stated on the batches in which no field is named "time", where nothing but
\* the timestamp can end the handler.)
C4_MalformedDropped ==
    (/\ pivot_pc \in {"done", "error"}
     /\ \E n \in 1..Len(AllRecords) : ~WellFormed(AllRecords[n])
     /\ \A n \in 1..Len(AllRecords) : AllRecords[n].field # "time")
    => /\ pivot_pc = "done"
       /\ result = ListSort(DictValues(MergeAll(<<>>, SelectSeq(AllRecords, WellFormed))))

-----------------------------------------------------------------------------
(* predictor.py: properties *)

\* the raw observation: the JSON object passed on the command line
RawBody == raw[1].body

\* the features the descriptor file declares
Declared == IF pp[1].has_features THEN pp[1].features
            ELSE <<"temperature", "humidity", "pressure">>

\* feature f is absent or null in the raw observation
RawMissing(f) == f \notin DOMAIN RawBody \/ RawBody[f][1] = "null"

\* the run is over, the descriptor was loaded and the argument was a JSON object
\* in which a declared feature is absent or null
RanWithMissingFeature ==
    /\ pc \in {"done", "failed"}
    /\ Len(raw) = 1
    /\ raw[1].kind = "object"
    /\ \E i \in 1..Len(Declared) : RawMissing(Declared[i])

\* the first declared feature, in the descriptor's order, that is absent or null
FirstMissing ==
    CHOOSE i \in 1..Len(Declared) :
        /\ RawMissing(Declared[i])
        /\ \A j \in 1..(i - 1) : ~RawMissing(Declared[j])

\* no value that float() is applied to before the first missing feature is a
\* non-numeric string: neither the pressure nor an earlier declared feature
NumericBeforeFirstMissing ==
    /\ "pressure" \in DOMAIN RawBody => RawBody["pressure"][1] # "str"
    /\ \A j \in 1..(FirstMissing - 1) : RawBody[Declared[j]][1] # "str"

\* C5 as claimed: whenever a declared feature is absent or null the run fails
\* with the error naming such a feature, no vector is built, no inference runs.
C5_MissingFeatureNamed ==
    RanWithMissingFeature =>
        /\ pc = "failed"
        /\ x = <<>> /\ input_tensor = <<>> /\ probs = <<>> /\ stdout = <<>>
        /\ stderr[1].type = "ValueError"
        /\ stderr[1].error[1] = "Missing or null feature"
        /\ \E i \in 1..Len(Declared) :
               RawMissing(Declared[i]) /\ stderr[1].error[2] = Declared[i]

\* C5 as amended: whenever a declared feature is absent or null the run fails
\* with a ValueError, no vector is built and no inference runs; the error names
\* the first such feature in descriptor order when no value converted before it
\* (the pressure, the earlier declared features) is a non-numeric string, and is
\* the conversion error of that string otherwise.
C5_MissingFeatureFails ==
    RanWithMissingFeature =>
        /\ pc = "failed"
        /\ exit_code = 1
        /\ x = <<>> /\ input_tensor = <<>> /\ probs = <<>> /\ stdout = <<>>
        /\ Len(stderr) = 1
        /\ stderr[1].type = "ValueError"
        /\ IF NumericBeforeFirstMissing
           THEN stderr[1].error = <<"Missing or null feature", Declared[FirstMissing]>>
           ELSE stderr[1].error[1] = "could not convert string to float"

\* C5 witness: of the declared features temperature and pressure, the complete
\* observation lost exactly pressure, and the run failed naming pressure
C5_Witness ==
    /\ pc = "failed"
    /\ Len(raw) = 1
    /\ raw[1].kind = "object"
    /\ Declared = <<"temperature", "pressure">>
    /\ DOMAIN RawBody = {"temperature"}
    /\ RawBody["temperature"] = JInt(14)
    /\ stderr[1].error = <<"Missing or null feature", "pressure">>

\* the raw value of declared feature i after unit normalization, as a fraction
\* num/den: a pressure above 2000 is divided by 1000, nothing else is rescaled
UnitNum(i) == RawBody[Declared[i]][2]
UnitDen(i) ==
    IF Declared[i] = "pressure" /\ RawBody[Declared[i]][2] > 2000 THEN 1000 ELSE 1

\* C6: the vector handed to the classifier has length F and its i-th element is
\* (v_i - mean[i]) / scale[i], v_i the unit-normalized raw value of features[i].
\* With e = n/d the element and v = num/den: n * scale * den = d * (num - mean * den).
C6_StandardizedVector ==
    input_tensor # <<>> =>
        /\ Len(input_tensor) = Len(Declared)
        /\ \A i \in 1..Len(Declared) :
               IF RawBody[Declared[i]][1] = "nan"
               THEN input_tensor[i][1] = "nan"
               ELSE /\ input_tensor[i][1] = "float"
                    /\ input_tensor[i][3] > 0
                    /\ input_tensor[i][2] * pp[1].std[i] * UnitDen(i) =
                           input_tensor[i][3] * (UnitNum(i) - pp[1].mean[i] * UnitDen(i))

\* C6 witness: features [temperature, pressure], mean [10, 20], scale [2, 5], raw
\* temperature 14 and pressure 101325: the classifier gets [2, 16.265]
C6_Witness ==
    /\ input_tensor = <<(<<"float", 2, 1>>), (<<"float", 3253, 200>>)>>
    /\ Declared = <<"temperature", "pressure">>
    /\ pp[1].mean = <<10, 20>>
    /\ pp[1].std = <<2, 5>>
    /\ RawBody["temperature"] = JInt(14)
    /\ RawBody["pressure"] = JInt(101325)

\* C7: the value used for standardization is p/1000 for a raw pressure p > 2000
\* and p itself otherwise (2000 included); no other key of the payload and no
\* other feature is rescaled.
C7_PressureNormalized ==
    pc \in {"build_input_vector", "standardize"} =>
        /\ DOMAIN payload[1].body = DOMAIN RawBody
        /\ \A k \in DOMAIN RawBody :
               IF k = "pressure" /\ RawBody[k][1] = "int" /\ RawBody[k][2] > 2000
               THEN /\ payload[1].body[k][1] = "float"
                    /\ payload[1].body[k][3] > 0
                    /\ payload[1].body[k][2] * 1000 = RawBody[k][2] * payload[1].body[k][3]
               ELSE payload[1].body[k] = RawBody[k]
        /\ pc = "standardize" =>
               \A i \in 1..Len(Declared) :
                   RawBody[Declared[i]][1] = "int" =>
                       /\ x[i][1] = "float"
                       /\ x[i][3] > 0
                       /\ x[i][2] * UnitDen(i) = UnitNum(i) * x[i][3]

\* C7 witness: temperature and pressure both arrive as 101325; the vector before
\* standardization is [101325, 101.325]: the pressure is rescaled, the
\* temperature is not
C7_Witness ==
    /\ pc = "standardize"
    /\ Declared = <<"temperature", "pressure">>
    /\ RawBody["temperature"] = JInt(101325)
    /\ RawBody["pressure"] = JInt(101325)
    /\ x = <<(<<"float", 101325, 1>>), (<<"float", 4053, 40>>)>>

\* C8: the vector passed to the classifier holds finite numbers only.
C8_OnlyFiniteReachesClassifier ==
    input_tensor # <<>> => \A i \in 1..Len(input_tensor) : input_tensor[i][1] = "float"

\* C9: a descriptor whose features, mean and std differ in length makes the load
\* raise: nothing is returned, no vector is built, no inference runs; a
\* descriptor of equal lengths is returned as it is in the file.
C9_LoadPreprocess ==
    Len(pp) = 1 =>
        IF Len(Declared) = Len(pp[1].mean) /\ Len(pp[1].mean) = Len(pp[1].std)
        THEN /\ features = Declared
             /\ labels = pp[1].labels
             /\ Len(mean) = Len(pp[1].mean)
             /\ Len(std) = Len(pp[1].std)
             /\ \A i \in 1..Len(mean) : mean[i] = <<"float", pp[1].mean[i], 1>>
             /\ \A i \in 1..Len(std) : std[i] = <<"float", pp[1].std[i], 1>>
        ELSE /\ pc = "failed"
             /\ exit_code = 1
             /\ stderr[1].type = "ValueError"
             /\ features = <<>> /\ mean = <<>> /\ std = <<>> /\ labels = <<>>
             /\ interpreter = <<>>
             /\ x = <<>> /\ input_tensor = <<>> /\ probs = <<>> /\ stdout = <<>>

\* C9 witness: two features and two means but one std: the load has failed
C9_Witness ==
    /\ Len(pp) = 1
    /\ Len(Declared) = 2
    /\ Len(pp[1].mean) = 2
    /\ Len(pp[1].std) = 1
    /\ pc = "failed"

\* C10: the reported label is labels[k], k the smallest index at which probs is
\* maximal, and the reported confidence is probs[k].
C10_ArgmaxFirst ==
    pc = "done" =>
        \E k \in 1..Len(probs) :
            /\ \A j \in 1..Len(probs) : probs[j] <= probs[k]
            /\ \A j \in 1..(k - 1) : probs[j] < probs[k]
            /\ stdout[1].prediction = pp[1].labels[k]
            /\ stdout[1].confidence = ProbFloat(probs[k])

\* C10 witness: [0.4, 0.2, 0.4] over [rain, clear, cloudy]: a tie between the
\* first and the last class, reported as (rain, 0.4)
C10_Witness ==
    /\ pc = "done"
    /\ probs = <<4, 2, 4>>
    /\ pp[1].labels = <<"rain", "clear", "cloudy">>
    /\ stdout[1].prediction = "rain"
    /\ stdout[1].confidence = <<"float", 2, 5>>


\* C11: every printed result is well-formed: its label is one of the descriptor's
\* labels, its confidence is the probability of that label in the output
\* tensor, a number between 0 and 1 that no other class exceeds.
C11_WellFormedResult ==
    pc = "done" =>
        \E k \in 1..Len(labels) :
            /\ labels[k] = stdout[1].prediction
            /\ k <= Len(probs)
            /\ stdout[1].confidence = ProbFloat(probs[k])
            /\ stdout[1].confidence[1] = "float"
            /\ 0 <= stdout[1].confidence[2]
            /\ stdout[1].confidence[2] <= stdout[1].confidence[3]
            /\ \A j \in 1..Len(probs) : probs[j] <= probs[k]

\* C12: a run ends in exactly one of two ways. Success: one result line holding
\* a prediction and a confidence on stdout, nothing on stderr, exit status 0.
\* Failure: nothing on stdout (no prediction, no default label), one error line
\* holding `error` and `type` on stderr, a non-zero exit status. Until it ends a
\* run has printed nothing, has no exit status and can take a step.
C12_ExactlyOneOutcome ==
    /\ pc = "done" =>
           /\ Len(stdout) = 1
           /\ DOMAIN stdout[1] = {"prediction", "confidence"}
           /\ stderr = <<>>
           /\ exit_code = 0
    /\ pc = "failed" =>
           /\ stdout = <<>>
           /\ Len(stderr) = 1
           /\ DOMAIN stderr[1] = {"error", "type"}
           /\ exit_code # 0
           /\ exit_code # -1
    /\ pc \notin {"done", "failed"} =>
           /\ stdout = <<>>
           /\ stderr = <<>>
           /\ exit_code = -1
           /\ ENABLED PredNext

\* C12 witness: a run that fails on a missing feature after the payload was
\* parsed: an error line of type ValueError, no vector, nothing on stdout
C12_Witness ==
    /\ pc = "failed"
    /\ payload # <<>>
    /\ x = <<>>
    /\ stdout = <<>>
    /\ Len(stderr) = 1
    /\ stderr[1].type = "ValueError"
    /\ stderr[1].error[1] = "Missing or null feature"
    /\ exit_code = 1


\* C13: when preprocess.json or weather_model.tflite is absent the run stops at
\* the start: the argument is never read or parsed, no descriptor is loaded, no
\* interpreter created, no vector built, nothing inferred or printed on stdout,
\* and the error reported is the FileNotFoundError naming the first absent file.
C13_MissingArtifactFatal ==
    (fs # <<>> /\ fs[1] # Artifacts) =>
        /\ pc \in {"check_model", "failed"}
        /\ pc = "check_model" => "preprocess.json" \in fs[1]
        /\ pp = <<>>
        /\ interpreter = <<>>
        /\ raw = <<>>
        /\ payload = <<>>
        /\ x = <<>>
        /\ input_tensor = <<>>
        /\ probs = <<>>
        /\ stdout = <<>>
        /\ pc = "failed" =>
               /\ Len(stderr) = 1
               /\ stderr[1].type = "FileNotFoundError"
               /\ stderr[1].error[1] =
                      IF "preprocess.json" \notin fs[1]
                      THEN "preprocess.json not found"
                      ELSE "weather_model.tflite not found"
               /\ exit_code = 1

\* C13 witness: the descriptor is there, the classifier file is not: the run
\* has failed on it without reading its argument
C13_Witness ==
    /\ fs = <<{"preprocess.json"}>>
    /\ pc = "failed"
    /\ stderr[1].error[1] = "weather_model.tflite not found"
    /\ raw = <<>>


\* C14: a classifier whose input width differs from the number of features of
\* the descriptor is refused at startup: once both are loaded the run goes no
\* further, so no argument is read and no vector is built.
C14_WidthMismatchAtStartup ==
    (/\ interpreter # <<>>
     /\ Len(features) # interpreter[1].input_width) =>
        /\ pc = "failed"
        /\ raw = <<>>
        /\ x = <<>>


-----------------------------------------------------------------------------
(* rag.py: properties *)

\* the place (1st..6th) of a phrase in the list of its language
Position(phrase) ==
    CHOOSE k \in 1..6 : VerbalEn[k] = phrase \/ VerbalIt[k] = phrase

\* the finite float c is at least n / den
AtLeast(c, n, den) == c[2] * den >= n * c[3]

\* c lies in the k-th of the six bands whose lower bounds are 90, 80, 70, 60
\* and 50 over den: den = 100 cuts the probabilities, den = 1 the percentages
WithinTier(c, k, den) ==
    /\ k \in 1..6
    /\ k <= 5 => AtLeast(c, 100 - 10 * k, den)
    /\ k >= 2 => ~AtLeast(c, 110 - 10 * k, den)

C16_SameTierBothLocales ==
    (verbal_call # <<>> /\ verbal_call[1].language = "it") =>
        \E k \in 1..6 :
            /\ verbal_call[1].result = VerbalIt[k]
            /\ confidence_to_verbal(verbal_call[1].confidence, "en") = VerbalEn[k]
            /\ VerbalIt[k] # VerbalEn[k]

\* C16 witness: 75 in Italian gets the third phrase, as 75 does in English
C16_Witness ==
    /\ verbal_call = <<[confidence |-> Float(75, 1), language |-> "it",
                        result |-> "probabilmente"]>>
    /\ confidence_to_verbal(Float(75, 1), "en") = "likely"

\* C17: a language other than "en" and "it" never makes the verbalizer or the
\* context builder fail: each returns exactly what it returns for "en" with the
\* same confidence and prediction, and a request in such a language is served
\* as a request in "en".
C17_UnsupportedLocaleIsEnglish ==
    /\ (verbal_call # <<>> /\ verbal_call[1].language \notin {"en", "it"}) =>
           /\ verbal_call[1].result \in {VerbalEn[k] : k \in 1..6}
           /\ verbal_call[1].result =
                  confidence_to_verbal(verbal_call[1].confidence, "en")
    /\ (context_call # <<>> /\ context_call[1].language \notin {"en", "it"}) =>
           /\ context_call[1].result =
                  build_weather_context(context_call[1].prediction,
                                        context_call[1].confidence, "en")
           /\ context_call[1].result # <<>> =>
                  /\ context_call[1].result[1] = "WEATHER PREDICTION:"
                  /\ context_call[1].result[2] = "Conditions will"
    /\ (rag_pc = "done" /\ request # <<>>
            /\ request[1].language \notin {"en", "it"}) =>
           /\ language = "en"
           /\ context_call[1].result =
                  build_weather_context(weather[1], weather[2], "en")

\* C17 witness: the context built on its own for "fr", rainy at 75: the English
\* header and sentence with the third English phrase
C17_Witness ==
    context_call = <<[prediction |-> "rainy", confidence |-> Float(75, 1),
                      language |-> "fr",
                      result |-> <<"WEATHER PREDICTION:", "Conditions will", "likely",
                                   "be:", "rainy">>]>>


\* C18: the predictor's confidence is on the scale the verbalizer cuts: for the
\* descriptor [temperature, humidity, pressure], mean [20, 50, 101], scale
\* [5, 10, 1], labels [sunny, rainy], the observation {25, 60, 102000} and the
\* classifier output [0.3, 0.7], the run prints (rainy, 0.7) and the request made
\* from it in English puts the confidence into the word "likely".
C18_SameScaleEndToEnd ==
    (/\ pp = <<FullDescriptor>>
     /\ raw = <<FullObservation>>
     /\ probs = <<3, 7>>
     /\ rag_pc = "done"
     /\ request[1].language = "en") =>
        /\ input_tensor = <<Float(1, 1), Float(1, 1), Float(1, 1)>>
        /\ stdout = <<[prediction |-> "rainy", confidence |-> Float(7, 10)]>>
        /\ weather = <<"rainy", Float(7, 10)>>
        /\ context_call[1].result[3] = "likely"


-----------------------------------------------------------------------------
(* predictor.py, runs at the same time: properties *)

\* what a run prints when it is the only one: the artifacts f and the argument a
\* decide it
SoloResult(f, a) ==
    LET feats == PpFeatures(f.preprocess)
        body == normalize_units(a.body)
        v == Standardize(build_input_vector(body, feats),
                         AsFloatArray(f.preprocess.mean), AsFloatArray(f.preprocess.std))
        q == Classify(f.model.output_width, v)
    IN  IF a.kind = "absent" THEN Failed("ValueError")
        ELSE IF a.kind = "invalid" THEN Failed("JSONDecodeError")
        ELSE IF a.kind = "number" THEN Failed("TypeError")
        ELSE IF NormalizeRaises(a.body) \/ BuildStop(body, feats) # 0
        THEN Failed("ValueError")
        ELSE IF Len(feats) # f.model.input_width THEN Failed("ValueError")
        ELSE IF ArgMax(q) > Len(f.preprocess.labels) THEN Failed("IndexError")
        ELSE Printed(f.preprocess.labels[ArgMax(q)], ProbFloat(q[ArgMax(q)]))

\* C19: whatever the other run does meanwhile, a run prints what it prints when
\* it runs alone with the same artifacts and argument; no run writes to the
\* tensors of another run's interpreter.
C19_IsolatedRuns ==
    \A r \in Runs :
        /\ run_out[r] # <<>> => run_out[r] = <<SoloResult(files[1], run_arg[r][1])>>
        /\ run_pc[r] \in {"invoke", "argmax"} => contexts[r].input = run_x[r]

\* C19 witness: run a has printed rain for a temperature of 14; run b, started
\* on a temperature of 2000, has set its own input tensor and not yet invoked
C19_Witness ==
    /\ run_pc["a"] = "done"
    /\ run_out["a"] = <<Printed("rain", Float(7, 10))>>
    /\ run_pc["b"] = "invoke"
    /\ contexts["a"].input = <<Float(-6, 5)>>
    /\ contexts["b"].input = <<Float(396, 1)>>

\* the batch f read in the order p
Permuted(f, p) == [i \in 1..Len(f) |-> f[p[i]]]

\* the orders a batch of n records can come in
Orders(n) == {p \in [1..n -> 1..n] : \A i, j \in 1..n : i # j => p[i] # p[j]}

\* no (timestamp, field) pair occurs twice in the batch f
DistinctPairs(f) ==
    \A i, j \in 1..Len(f) :
        i # j => ~(f[i].time = f[j].time /\ f[i].field = f[j].field)

\* what the handler does on the batch f: the exception that leaves it, or the
\* list it returns
PivotOutcome(f) ==
    IF \E i \in 1..Len(f) : ~WellFormed(f[i]) THEN <<"AttributeError">>
    ELSE IF SortRaises(DictValues(MergeAll(<<>>, f))) THEN <<"TypeError">>
    ELSE <<"returned", ListSort(DictValues(MergeAll(<<>>, f)))>>

\* C22: the pivot does not depend on the order of its input when no
\* (timestamp, field) pair is repeated: on every permutation of such a batch
\* the handler returns the same list (same observations, same values, same
\* order), or raises the same exception, as on the batch itself.
C22_OrderIndependent ==
    (pivot_pc \in {"done", "error"} /\ DistinctPairs(AllRecords)) =>
        \A p \in Orders(Len(AllRecords)) :
            PivotOutcome(Permuted(AllRecords, p)) =
                (IF pivot_pc = "done" THEN <<"returned", result>> ELSE <<pivot_err>>)

\* C24: every observation of the pivot carries under "time" the timestamp of
\* the records merged into it, whatever their field names, "time" included: no
\* field value replaces it, and the returned list is sorted by timestamps.
C24_TimeKeyIsTimestamp ==
    /\ \A i \in 1..Len(by_time) :
           \E n \in 1..Len(AllRecords) :
               /\ WellFormed(AllRecords[n])
               /\ isoformat(AllRecords[n].time) = by_time[i].key
               /\ by_time[i].obs["time"] = AllRecords[n].time
    /\ pivot_pc = "done" =>
           \A i \in 1..Len(result) :
               \E n \in 1..Len(AllRecords) : SortKey(result[i]) = AllRecords[n].time

\* the objects p and q give every declared feature the same value, or both
\* leave it out
AgreeOnFeatures(f, p, q) ==
    \A i \in 1..Len(f) :
        /\ f[i] \in DOMAIN p <=> f[i] \in DOMAIN q
        /\ f[i] \in DOMAIN p => p[f[i]] = q[f[i]]

\* C23: keys of the raw observation that are not declared features do not
\* influence the result: two runs on the same artifacts whose observations
\* agree on every declared feature end the same way, with the same label and
\* confidence or the same error, whatever other keys ("pressure" included)
\* either observation carries.
C23_ExtraKeysIgnored ==
    (/\ run_out["a"] # <<>>
     /\ run_out["b"] # <<>>
     /\ run_arg["a"][1].kind = "object"
     /\ run_arg["b"][1].kind = "object"
     /\ AgreeOnFeatures(PpFeatures(files[1].preprocess),
                        run_arg["a"][1].body, run_arg["b"][1].body))
        => run_out["a"] = run_out["b"]


-----------------------------------------------------------------------------
(* auth.py: properties *)

\* C20: the forecast is for admins only: the dependency returns a user, and the
\* handler returns data, only for a valid token whose user document exists and
\* has the role "admin"; a visitor, any other role and a caller without a
\* document are rejected.
C20_ForecastAdminOnly ==
    (admin # <<>> \/ forecast) =>
        /\ token[1].valid
        /\ users[token[1].uid].exists
        /\ users[token[1].uid].role = "admin"

\* C21: a login returns an access token only out of the step that found the
\* password right for the account of the email and read a user document that
\* exists with role "admin"; every other end of a login is an HTTP error (401
\* or 403) without a token. So the visitor document written by /register does
\* not let its user in until the role is changed to admin.
C21_LoginAdminOnly ==
    [][/\ (login'.response # <<>>) <=> (login'.pc = "done")
       /\ login'.pc = "done" => login'.status = 200
       /\ login'.pc = "rejected" => login'.status \in {401, 403}
       /\ (login.pc # "done" /\ login'.pc = "done") =>
              \E u \in get_user_by_email(login.email) :
                  /\ accounts[u][1].password = login.password
                  /\ users[u].exists
                  /\ users[u].role = "admin"
                  /\ login'.response[1].access_token = [valid |-> TRUE, uid |-> u]
       /\ \A c \in Callers :
              (/\ reg[c].status = 201
               /\ login.pc # "done"
               /\ login.user = <<reg[c].uid>>
               /\ users[reg[c].uid].role = "visitor") => login'.pc # "done"]_vars

\* C21 witness: the user registered by c1 has been made admin and has logged
\* in; the call of c2 for another email has left a visitor document
C21_Witness ==
    /\ reg["c1"].status = 201
    /\ reg["c2"].status = 201
    /\ users[reg["c1"].uid].role = "admin"
    /\ users[reg["c2"].uid].role = "visitor"
    /\ login.pc = "done"
    /\ login.response[1].access_token.uid = reg["c1"].uid

\* a visitor registered by c1 has been refused by login with 403
C21_VisitorRefused ==
    /\ reg["c1"].status = 201
    /\ users[reg["c1"].uid] = [exists |-> TRUE, role |-> "visitor"]
    /\ login.user = <<reg["c1"].uid>>
    /\ login.pc = "rejected"
    /\ login.status = 403

\* no two accounts of Firebase Authentication have the same email
UniqueEmails ==
    \A u, v \in Uids :
        (u # v /\ accounts[u] # <<>> /\ accounts[v] # <<>>)
            => accounts[u][1].email # accounts[v][1].email

\* C25: registration keeps emails unique and always assigns the visitor role,
\* whatever the interleaving of the calls: no two accounts share an email; a
\* call whose email has an account when it looks it up or creates the user
\* ends with 400 and changes neither the accounts nor the users collection;
\* the accounts change only by one new account made for one call; a call ends
\* with 201 only by writing the document of the one account it made, with
\* role "visitor".
C25_RegisterUniqueVisitor ==
    [][/\ UniqueEmails /\ UniqueEmails'
       /\ \A c \in Callers :
              /\ (/\ reg[c].pc \in {"get_user_by_email", "create_user"}
                  /\ get_user_by_email(reg[c].email) # {}
                  /\ reg'[c] # reg[c])
                     => /\ reg'[c].pc = "done"
                        /\ reg'[c].status = 400
                        /\ accounts' = accounts
                        /\ users' = users
              /\ reg'[c].pc = "done" => reg'[c].status \in {201, 400}
              /\ (reg[c].status # 201 /\ reg'[c].status = 201)
                     => /\ accounts' = accounts
                        /\ get_user_by_email(reg[c].email) = {reg[c].uid}
                        /\ accounts[reg[c].uid][1].password = reg[c].password
                        /\ users' = [users EXCEPT ![reg[c].uid] =
                                        [exists |-> TRUE, role |-> "visitor"]]
       /\ accounts' # accounts =>
              \E c \in Callers : \E u \in Uids :
                  /\ accounts[u] = <<>>
                  /\ accounts' = [accounts EXCEPT ![u] =
                         <<[email |-> reg[c].email, password |-> reg[c].password]>>]
                  /\ reg'[c].uid = u
                  /\ users' = users]_vars

\* C25 witness: two calls for the same email have ended, one with 201 and a
\* visitor document, the other with 400; the email has one account
C25_Witness ==
    /\ reg["c1"].status = 201
    /\ reg["c2"].status = 400
    /\ reg["c1"].email = reg["c2"].email
    /\ reg["c1"].password # reg["c2"].password
    /\ get_user_by_email(reg["c2"].email) = {reg["c1"].uid}
    /\ users[reg["c1"].uid] = [exists |-> TRUE, role |-> "visitor"]
    /\ \A u \in Uids \ {reg["c1"].uid} : accounts[u] = <<>> /\ ~users[u].exists

====
